---- MODULE Spec2Model ----
(***************************************************************************)
(* Model of xarray_einstats/linalg.py: the named-dimension einsum planner  *)
(* (PairHandler, _einsum_parent, einsum, einsum_path, raw_einsum) and the  *)
(* default-dimension hook of the numpy.linalg wrappers.                    *)
(*                                                                         *)
(* Representation.  A Python str is a sequence of one-character strings,   *)
(* so a dimension name is e.g. <<"b","t">> and the subscripts string       *)
(* "...ab,a->b" is <<".",".",".","a","b",",","a","-",">","b">>.  A Python  *)
(* list is a sequence, a set is a set, a dict is a function.               *)
(***************************************************************************)
EXTENDS Integers, Sequences, FiniteSets, TLC

(***************************************************************************)
(* Bounds of the model.                                                    *)
(***************************************************************************)
MaxOperands == 2    \* operands of one generated request
MaxAxes == 2        \* axes of one generated operand
MaxDeclared == 1    \* names over all the lists of dims of a generated request
MaxPermuted == 3    \* sets up to this size are iterated in every order
MaxOutLen == 3      \* length of the lists the renaming specification draws
MaxRawNames == 2    \* names of one operand / of the output in a raw subscripts string

(***************************************************************************)
(* Generic helpers on sequences (Python list / str primitives).            *)
(***************************************************************************)
Range(s) == {s[x] : x \in DOMAIN s}

InList(x, s) == \E p \in DOMAIN s : s[p] = x

NoDup(s) == \A p, q \in DOMAIN s : p # q => s[p] # s[q]

SeqsUpTo(S, n) == UNION {[1..m -> S] : m \in 0..n}

Front(s) == SubSeq(s, 1, Len(s) - 1)

Last(s) == s[Len(s)]

Reverse(s) == [p \in 1..Len(s) |-> s[Len(s) - p + 1]]

\* list.count(x)
Count(s, x) == Cardinality({p \in DOMAIN s : s[p] = x})

\* "".join(list of str) / concatenation of a list of lists
RECURSIVE Flatten(_)
Flatten(ss) == IF ss = <<>> THEN <<>> ELSE Head(ss) \o Flatten(Tail(ss))

\* sep.join(list of str)
RECURSIVE Join(_, _)
Join(sep, ss) ==
  IF ss = <<>> THEN <<>>
  ELSE IF Len(ss) = 1 THEN ss[1]
  ELSE ss[1] \o sep \o Join(sep, Tail(ss))

RECURSIVE SumLen(_)
SumLen(ss) == IF ss = <<>> THEN 0 ELSE Len(Head(ss)) + SumLen(Tail(ss))

(***************************************************************************)
(* Iteration order of a Python set of str.  String hashing is randomised   *)
(* per process, so the order of `for d in all_dims` is not fixed by the    *)
(* program: every order is possible.  Sets of at most MaxPermuted elements *)
(* are iterated in every order; larger ones (the 26/27-name requests) in   *)
(* one order and its reverse.                                              *)
(***************************************************************************)
RECURSIVE SomeOrder(_)
SomeOrder(S) ==
  IF S = {} THEN <<>>
  ELSE LET x == CHOOSE y \in S : TRUE IN <<x>> \o SomeOrder(S \ {x})

SetIterOrders(S) ==
  IF Cardinality(S) <= MaxPermuted
  THEN {o \in [1..Cardinality(S) -> S] : Range(o) = S}
  ELSE {SomeOrder(S), Reverse(SomeOrder(S))}

(***************************************************************************)
(* PairHandler                                                             *)
(***************************************************************************)
\* the literal "zyxwvutsrqponmlkjihgfedcba"
Alphabet ==
  <<"z","y","x","w","v","u","t","s","r","q","p","o","n",
    "m","l","k","j","i","h","g","f","e","d","c","b","a">>

Ellipsis == <<".", ".", ".">>

Arrow == <<"-", ">">>

\* self.einsum_axes without the `if letter not in self.potential_out_dims`
EinsumAxesUnfiltered(potential_out_dims) == Alphabet

\* self.einsum_axes: the letters that are not themselves in potential_out_dims
EinsumAxes(potential_out_dims) ==
  SelectSeq(Alphabet, LAMBDA letter : <<letter>> \notin potential_out_dims)

\* {d: self.einsum_axes.pop() for d in all_dims}, d taken in the order `order`.
\* ok = FALSE: pop from an empty list (IndexError).
RECURSIVE DimMap(_, _, _)
DimMap(order, axes, map) ==
  IF order = <<>> THEN [ok |-> TRUE, einsum_axes |-> axes, dim_map |-> map]
  ELSE IF axes = <<>> THEN [ok |-> FALSE, einsum_axes |-> axes, dim_map |-> map]
  ELSE DimMap(Tail(order), Front(axes), map @@ (Head(order) :> Last(axes)))

EmptyMap == [d \in {} |-> "a"]

\* PairHandler.__init__ with dim_map filled from a copy of the pool: the pool
\* still holds the letters dim_map uses
PairHandlerInitCopiedPool(all_dims, keep_dims, order) ==
  LET potential_out_dims == keep_dims \cup all_dims
      filled == DimMap(order, EinsumAxes(potential_out_dims), EmptyMap)
  IN [ok |-> filled.ok,
      potential_out_dims |-> potential_out_dims,
      einsum_axes |-> EinsumAxes(potential_out_dims),
      dim_map |-> filled.dim_map,
      out_dims |-> <<>>,
      out_subscript |-> <<>>,
      ellipsis |-> FALSE]

\* PairHandler.__init__ with a pool that starts over when it runs out
RECURSIVE DimMapRefill(_, _, _, _)
DimMapRefill(order, axes, map, full) ==
  IF order = <<>> THEN [ok |-> TRUE, einsum_axes |-> axes, dim_map |-> map]
  ELSE IF axes = <<>> THEN DimMapRefill(order, full, map, full)
  ELSE DimMapRefill(Tail(order), Front(axes), map @@ (Head(order) :> Last(axes)), full)

PairHandlerInitRefill(all_dims, keep_dims, order) ==
  LET potential_out_dims == keep_dims \cup all_dims
      filled == DimMapRefill(order, EinsumAxes(potential_out_dims), EmptyMap, Alphabet)
  IN [ok |-> filled.ok,
      potential_out_dims |-> potential_out_dims,
      einsum_axes |-> filled.einsum_axes,
      dim_map |-> filled.dim_map,
      out_dims |-> <<>>,
      out_subscript |-> <<>>,
      ellipsis |-> FALSE]

\* PairHandler.__init__(all_dims, keep_dims)
PairHandlerInit(all_dims, keep_dims, order) ==
  LET potential_out_dims == keep_dims \cup all_dims
      filled == DimMap(order, EinsumAxes(potential_out_dims), EmptyMap)
  IN [ok |-> filled.ok,
      potential_out_dims |-> potential_out_dims,
      einsum_axes |-> filled.einsum_axes,
      dim_map |-> filled.dim_map,
      out_dims |-> <<>>,
      out_subscript |-> <<>>,
      ellipsis |-> FALSE]

\* the loop `for dim in out_dims:` of process_dim_da_pair, one iteration per call
RECURSIVE PassThrough(_, _, _, _)
PassThrough(h, todo, subscripts, updated_in_dims) ==
  IF todo = <<>>
  THEN [ok |-> TRUE, h |-> h, subscripts |-> subscripts,
        updated_in_dims |-> updated_in_dims]
  ELSE IF h.einsum_axes = <<>>
  THEN [ok |-> FALSE, h |-> h, subscripts |-> subscripts,
        updated_in_dims |-> updated_in_dims]
  ELSE LET dim == Head(todo)
           sub == Last(h.einsum_axes)
       IN PassThrough(
            [h EXCEPT !.out_dims = Append(@, dim),
                      !.einsum_axes = Front(@),
                      !.out_subscript = Append(@, sub)],
            Tail(todo),
            Append(subscripts, sub),
            <<dim>> \o updated_in_dims)

\* the symbols of the declared names: `for dim in dim_sublist: subscripts += self.dim_map[dim]`
Declared(h, dim_sublist) == [p \in 1..Len(dim_sublist) |-> h.dim_map[dim_sublist[p]]]

\* process_dim_da_pair that forgets `self.ellipsis = True`
ProcessDimDaPairNoFlag(h, da_dims, dim_sublist) ==
  LET out_dims == SelectSeq(da_dims,
                    LAMBDA dim : dim \in h.potential_out_dims /\ ~InList(dim, dim_sublist))
      loop == PassThrough(h, out_dims, <<>>, dim_sublist)
      subscripts == loop.subscripts \o Declared(h, dim_sublist)
      more == Len(da_dims) > Len(out_dims) + Len(dim_sublist)
  IN [ok |-> loop.ok,
      h |-> loop.h,
      subscripts |-> IF more THEN Ellipsis \o subscripts ELSE subscripts,
      updated_in_dims |-> loop.updated_in_dims]

\* PairHandler.process_dim_da_pair(da, dim_sublist), da given by da.dims
ProcessDimDaPair(h, da_dims, dim_sublist) ==
  LET out_dims == SelectSeq(da_dims,
                    LAMBDA dim : dim \in h.potential_out_dims /\ ~InList(dim, dim_sublist))
      loop == PassThrough(h, out_dims, <<>>, dim_sublist)
      subscripts == loop.subscripts \o Declared(h, dim_sublist)
      more == Len(da_dims) > Len(out_dims) + Len(dim_sublist)
  IN [ok |-> loop.ok,
      h |-> [loop.h EXCEPT !.ellipsis = @ \/ (loop.ok /\ more)],
      subscripts |-> IF more THEN Ellipsis \o subscripts ELSE subscripts,
      updated_in_dims |-> loop.updated_in_dims]

\* get_out_subscript without its first test: "->" also when nothing was accumulated
GetOutSubscriptAlwaysArrow(h) ==
  IF h.ellipsis THEN Arrow \o Ellipsis \o h.out_subscript
  ELSE Arrow \o h.out_subscript

\* PairHandler.get_out_subscript()
GetOutSubscript(h) ==
  IF h.out_subscript = <<>> THEN <<>>
  ELSE IF h.ellipsis THEN Arrow \o Ellipsis \o h.out_subscript
  ELSE Arrow \o h.out_subscript

(***************************************************************************)
(* str.format, str.split, str.strip                                        *)
(***************************************************************************)
Digits == <<"0","1","2","3","4","5","6","7","8","9">>

\* str(n) for n >= 0
RECURSIVE Decimal(_)
Decimal(n) ==
  IF n < 10 THEN <<Digits[n + 1]>>
  ELSE Decimal(n \div 10) \o <<Digits[(n % 10) + 1]>>

\* pattern.format(i=n): "{i}" is replaced by str(n), "{{" and "}}" are the
\* escaped braces, every other use of a brace raises (ok = FALSE).
RECURSIVE Format(_, _)
Format(pattern, n) ==
  IF pattern = <<>> THEN [ok |-> TRUE, val |-> <<>>]
  ELSE IF Len(pattern) >= 3 /\ SubSeq(pattern, 1, 3) = <<"{", "i", "}">>
  THEN LET rest == Format(SubSeq(pattern, 4, Len(pattern)), n)
       IN [ok |-> rest.ok, val |-> Decimal(n) \o rest.val]
  ELSE IF Len(pattern) >= 2 /\ SubSeq(pattern, 1, 2) \in {<<"{", "{">>, <<"}", "}">>}
  THEN LET rest == Format(SubSeq(pattern, 3, Len(pattern)), n)
       IN [ok |-> rest.ok, val |-> <<pattern[1]>> \o rest.val]
  ELSE IF Head(pattern) \in {"{", "}"} THEN [ok |-> FALSE, val |-> <<>>]
  ELSE LET rest == Format(Tail(pattern), n)
       IN [ok |-> rest.ok, val |-> <<Head(pattern)>> \o rest.val]

\* sub in s
Contains(s, sub) ==
  \E p \in 1..(Len(s) - Len(sub) + 1) : SubSeq(s, p, p + Len(sub) - 1) = sub

\* s.split(sep), sep not empty
RECURSIVE SplitFrom(_, _, _)
SplitFrom(s, sep, cur) ==
  IF s = <<>> THEN <<cur>>
  ELSE IF Len(s) >= Len(sep) /\ SubSeq(s, 1, Len(sep)) = sep
  THEN <<cur>> \o SplitFrom(SubSeq(s, Len(sep) + 1, Len(s)), sep, <<>>)
  ELSE SplitFrom(Tail(s), sep, Append(cur, Head(s)))

Split(s, sep) == SplitFrom(s, sep, <<>>)

\* s.strip(chars)
RECURSIVE LStrip(_, _)
LStrip(s, chars) ==
  IF s # <<>> /\ Head(s) \in chars THEN LStrip(Tail(s), chars) ELSE s

Strip(s, chars) == Reverse(LStrip(Reverse(LStrip(s, chars)), chars))

\* iterating a str where a list of names is expected gives its characters,
\* each a str of length one
StrAsList(s) == [p \in 1..Len(s) |-> <<s[p]>>]

(***************************************************************************)
(* einsum: the names of the output axes (duplicates renamed)               *)
(***************************************************************************)
\* the loop body with count taken without the `+ 1`
RenamedDimZeroBased(out_dims, p, out_append) ==
  LET dim == out_dims[p]
      totalcount == Count(out_dims, dim)
      count == Count(SubSeq(out_dims, 1, p - 1), dim)
  IN IF (totalcount > 1) /\ (count > 1)
     THEN LET f == Format(out_append, count)
          IN [ok |-> f.ok, val |-> dim \o f.val]
     ELSE [ok |-> TRUE, val |-> dim]

\* the body of `for i, dim in enumerate(out_dims)`, p = i + 1
RenamedDim(out_dims, p, out_append) ==
  LET dim == out_dims[p]
      totalcount == Count(out_dims, dim)
      count == Count(SubSeq(out_dims, 1, p - 1), dim) + 1
  IN IF (totalcount > 1) /\ (count > 1)
     THEN LET f == Format(out_append, count)
          IN [ok |-> f.ok, val |-> dim \o f.val]
     ELSE [ok |-> TRUE, val |-> dim]

UpdatedOutDims(out_dims, out_append) ==
  [ok |-> \A p \in 1..Len(out_dims) : RenamedDim(out_dims, p, out_append).ok,
   val |-> [p \in 1..Len(out_dims) |-> RenamedDim(out_dims, p, out_append).val]]

\* einsum_path: [dim for dim in da.dims if dim not in sublist] + sublist
PathCoreDims(da_dims, sublist) ==
  SelectSeq(da_dims, LAMBDA dim : ~InList(dim, sublist)) \o sublist

(***************************************************************************)
(* Requests                                                                *)
(***************************************************************************)
DimNames == {<<"a">>, <<"b", "t">>}

\* da.dims of a DataArray: distinct names
AxesLists == {s \in SeqsUpTo(DimNames, MaxAxes) : Len(s) >= 1 /\ NoDup(s)}

DeclLists == SeqsUpTo(DimNames, MaxDeclared)

DimsLists(m) == {d \in [1..m -> DeclLists] : SumLen(d) <= MaxDeclared}

Generated ==
  UNION {
    {[operands |-> ops, dims |-> d, keep_dims |-> keep] :
       ops \in [1..n -> AxesLists],
       d \in DimsLists(n - 1) \cup DimsLists(n) \cup DimsLists(n + 1),
       keep \in SUBSET DimNames}
    : n \in 1..MaxOperands}

\* the requests of the documentation: matrix product with kept dimensions,
\* scalar reduction, an unmentioned batch axis
di == <<"i">>
dj == <<"j">>
dk == <<"k">>
dbatch == <<"b", "a", "t", "c", "h">>

Scenarios ==
  { [operands |-> <<<<di, dj>>, <<dj, dk>>>>, dims |-> <<<<dj>>, <<dj>>>>,
     keep_dims |-> {di, dk}],
    [operands |-> <<<<di, dj>>, <<dj, dk>>>>, dims |-> <<<<di, dj>>, <<dj, dk>>, <<>>>>,
     keep_dims |-> {}],
    [operands |-> <<<<di, dj>>, <<dj, dk>>>>, dims |-> <<<<di, dj>>, <<dj, dk>>, <<di, dk>>>>,
     keep_dims |-> {}],
    [operands |-> <<<<dbatch, di, dj>>>>, dims |-> <<<<di, dj>>>>,
     keep_dims |-> {}] }

\* names that are no letter: "da", "db", ..., "dz", then "ea", "eb", ...
WideName(x) ==
  <<IF x <= Len(Alphabet) THEN "d" ELSE "e",
    Alphabet[Len(Alphabet) - ((x - 1) % Len(Alphabet))]>>

WideList(from, to) == [p \in 1..(to - from + 1) |-> WideName(from + p - 1)]

\* requests around the size of the pool: one more name than the alphabet has
\* letters, declared on one operand; shared between operand and output; as many
\* names as letters; as many declared names as letters and one kept axis more
PoolSize == Len(Alphabet)

Wide ==
  { [operands |-> <<WideList(1, PoolSize + 1)>>,
     dims |-> <<WideList(1, PoolSize + 1)>>, keep_dims |-> {}],
    [operands |-> <<WideList(1, PoolSize)>>,
     dims |-> <<WideList(1, PoolSize - 1), WideList(PoolSize, PoolSize + 1)>>,
     keep_dims |-> {}],
    [operands |-> <<WideList(1, PoolSize)>>,
     dims |-> <<WideList(1, PoolSize)>>, keep_dims |-> {}],
    [operands |-> <<WideList(1, PoolSize), <<WideName(1), WideName(PoolSize + 1)>>>>,
     dims |-> <<WideList(1, PoolSize), <<WideName(1)>>>>,
     keep_dims |-> {WideName(PoolSize + 1)}],
    [operands |-> <<WideList(1, PoolSize - 1) \o <<di>>>>,
     dims |-> <<WideList(1, PoolSize - 1) \o <<di>>>>, keep_dims |-> {}] }

Requests == Generated \cup Scenarios \cup Wide

default_out_append == <<"{", "i", "}">>

OutAppends == {default_out_append, <<>>, <<"_", "{", "i", "}">>, <<"2">>, <<"{">>}

(***************************************************************************)
(* State                                                                   *)
(***************************************************************************)
VARIABLES
  pc,               \* position in the current call
  func,             \* the public function called
  operands,         \* da.dims of every operand
  dims,             \* the dims argument (when not None)
  dims_none,        \* the dims argument is None (the linalg wrappers)
  mode,             \* qr: the mode argument
  keep_dims,        \* the keep_dims argument
  out_append,       \* the out_append argument
  in_dims,          \* _einsum_parent: in_dims
  out_dims,         \* _einsum_parent: out_dims (when not None)
  out_none,         \* _einsum_parent: out_dims is None
  handler,          \* _einsum_parent: handler, a PairHandler
  in_subscripts,    \* _einsum_parent: in_subscripts
  updated_in_dims,  \* _einsum_parent: updated_in_dims
  subscripts,       \* the subscripts string returned by _einsum_parent
  core_dims,        \* input_core_dims of the operands in apply_ufunc
  updated_out_dims, \* einsum: updated_out_dims
  error,            \* the exception the call raised to its caller, or "none"
  called,           \* the numpy primitive was invoked through apply_ufunc
  get_default_dims, \* the module attribute get_default_dims
  caught,           \* the exception _attempt_default_dims caught, or "none"
  subscripts_arg,   \* raw_einsum: the subscripts argument
  written           \* the lists of names subscripts_arg was written from

request == <<func, operands, dims, dims_none, mode, keep_dims, out_append>>

parent == <<in_dims, out_dims, out_none, handler, in_subscripts, updated_in_dims,
            subscripts>>

result == <<core_dims, updated_out_dims, error, called>>

hook == <<get_default_dims, caught>>

raw == <<subscripts_arg, written>>

vars == <<pc, request, parent, result, hook, raw>>

NoHandler ==
  [ok |-> FALSE, potential_out_dims |-> {}, einsum_axes |-> <<>>,
   dim_map |-> EmptyMap, out_dims |-> <<>>, out_subscript |-> <<>>,
   ellipsis |-> FALSE]

\* nothing is alive between two calls
Blank ==
  /\ func = "none" /\ operands = <<>> /\ dims = <<>> /\ keep_dims = {}
  /\ dims_none = FALSE /\ mode = "none"
  /\ out_append = <<>>
  /\ in_dims = <<>> /\ out_dims = <<>> /\ out_none = FALSE /\ handler = NoHandler
  /\ in_subscripts = <<>> /\ updated_in_dims = <<>> /\ subscripts = <<>>
  /\ core_dims = <<>> /\ updated_out_dims = <<>> /\ error = "none"
  /\ called = FALSE /\ caught = "none"
  /\ subscripts_arg = <<>> /\ written = <<>>

Init ==
  /\ pc = "idle"
  /\ Blank
  /\ get_default_dims = "placeholder"

(***************************************************************************)
(* einsum / einsum_path                                                    *)
(***************************************************************************)
\* einsum(dims, *operands, keep_dims=...) or einsum_path(...) is entered
Call(f, r) ==
  /\ pc = "idle"
  /\ pc' = "parent"
  /\ func' = f
  /\ operands' = r.operands
  /\ dims' = r.dims
  /\ UNCHANGED <<dims_none, mode>>
  /\ keep_dims' = r.keep_dims
  /\ out_append' = IF f = "einsum" THEN default_out_append ELSE <<>>
  /\ UNCHANGED <<parent, result, hook, raw>>

\* _einsum_parent: the length of dims decides whether an output list was given
SplitDims ==
  /\ pc = "parent"
  /\ IF Len(dims) = Len(operands)
     THEN /\ in_dims' = dims
          /\ out_none' = TRUE
          /\ out_dims' = <<>>
          /\ pc' = "handler"
          /\ error' = "none"
     ELSE IF Len(dims) = Len(operands) + 1
     THEN /\ in_dims' = Front(dims)
          /\ out_none' = FALSE
          /\ out_dims' = Last(dims)
          /\ pc' = "handler"
          /\ error' = "none"
     ELSE /\ error' = "ValueError"
          /\ pc' = "raised"
          /\ UNCHANGED <<in_dims, out_none, out_dims>>
  /\ UNCHANGED <<request, handler, in_subscripts, updated_in_dims, subscripts,
                 core_dims, updated_out_dims, called, hook, raw>>

\* set(dim for sublist in dims for dim in sublist)
AllDims(d) == Range(Flatten(d))

\* _einsum_parent: handler = PairHandler(all_dims, keep_dims)
NewHandler ==
  /\ pc = "handler"
  /\ \E order \in SetIterOrders(AllDims(dims)) :
       LET h == PairHandlerInit(AllDims(dims), keep_dims, order)
       IN IF h.ok
          THEN /\ handler' = h
               /\ pc' = "pairs"
               /\ error' = "none"
          ELSE /\ handler' = handler
               /\ pc' = "raised"
               /\ error' = "IndexError"
  /\ UNCHANGED <<request, in_dims, out_dims, out_none, in_subscripts,
                 updated_in_dims, subscripts, core_dims, updated_out_dims,
                 called, hook, raw>>

\* _einsum_parent: one iteration of `for da, sublist in zip(operands, in_dims)`
ProcessPair ==
  /\ pc = "pairs"
  /\ Len(in_subscripts) < Len(in_dims)
  /\ LET x == Len(in_subscripts) + 1
         got == ProcessDimDaPair(handler, operands[x], in_dims[x])
     IN IF got.ok
        THEN /\ handler' = got.h
             /\ in_subscripts' = Append(in_subscripts, got.subscripts)
             /\ updated_in_dims' = Append(updated_in_dims, got.updated_in_dims)
             /\ pc' = "pairs"
             /\ error' = "none"
        ELSE /\ UNCHANGED <<handler, in_subscripts, updated_in_dims>>
             /\ pc' = "raised"
             /\ error' = "IndexError"
  /\ UNCHANGED <<request, in_dims, out_dims, out_none, subscripts, core_dims,
                 updated_out_dims, called, hook, raw>>

\* the output side of the subscripts string
OutSubscript(h, none, out) ==
  IF none THEN GetOutSubscript(h)
  ELSE IF out = <<>> THEN Arrow
  ELSE Arrow \o [p \in 1..Len(out) |-> h.dim_map[out[p]]]

\* the output dimension list _einsum_parent returns
OutDims(h, none, out) == IF none THEN h.out_dims ELSE out

\* _einsum_parent: the output subscript, the final string, return
ResolveOut ==
  /\ pc = "pairs"
  /\ Len(in_subscripts) = Len(in_dims)
  /\ subscripts' = Join(<<",">>, in_subscripts) \o OutSubscript(handler, out_none, out_dims)
  /\ out_dims' = OutDims(handler, out_none, out_dims)
  /\ pc' = "planned"
  /\ UNCHANGED <<request, in_dims, out_none, handler, in_subscripts,
                 updated_in_dims, result, hook, raw>>

\* einsum: the names of the output axes, and the operands' core dimensions
Rename ==
  /\ pc = "planned"
  /\ func \in {"einsum", "raw_einsum"}
  /\ LET u == UpdatedOutDims(out_dims, out_append)
     IN IF u.ok
        THEN /\ updated_out_dims' = u.val
             /\ core_dims' = updated_in_dims
             /\ pc' = "apply"
             /\ error' = "none"
        ELSE /\ UNCHANGED <<updated_out_dims, core_dims>>
             /\ pc' = "raised"
             /\ error' = "ValueError"
  /\ UNCHANGED <<request, parent, called, hook, raw>>

\* einsum_path: the operands' core dimensions
PathDims ==
  /\ pc = "planned"
  /\ func = "einsum_path"
  /\ core_dims' = [x \in 1..Len(updated_in_dims) |->
                     PathCoreDims(operands[x], updated_in_dims[x])]
  /\ pc' = "apply"
  /\ UNCHANGED <<request, parent, updated_out_dims, error, called, hook, raw>>

\* xr.apply_ufunc(np.einsum | np.einsum_path, subscripts, *operands, ...)
ApplyUfunc ==
  /\ pc = "apply"
  /\ called' = TRUE
  /\ pc' = "returned"
  /\ UNCHANGED <<request, parent, core_dims, updated_out_dims, error, hook, raw>>

\* the call is over (returned or raised): its objects are dropped
Return ==
  /\ pc \in {"returned", "raised"}
  /\ pc' = "idle"
  /\ func' = "none" /\ operands' = <<>> /\ dims' = <<>> /\ keep_dims' = {}
  /\ dims_none' = FALSE /\ mode' = "none"
  /\ out_append' = <<>>
  /\ in_dims' = <<>> /\ out_dims' = <<>> /\ out_none' = FALSE
  /\ handler' = NoHandler
  /\ in_subscripts' = <<>> /\ updated_in_dims' = <<>> /\ subscripts' = <<>>
  /\ core_dims' = <<>> /\ updated_out_dims' = <<>> /\ error' = "none"
  /\ called' = FALSE /\ caught' = "none"
  /\ subscripts_arg' = <<>> /\ written' = <<>>
  /\ UNCHANGED get_default_dims

\* a caller enters einsum or einsum_path with some request
Enter ==
  /\ pc = "idle"
  /\ \E f \in {"einsum", "einsum_path"}, r \in Requests : Call(f, r)

Next ==
  \/ Enter
  \/ SplitDims
  \/ NewHandler
  \/ ProcessPair
  \/ ResolveOut
  \/ Rename
  \/ PathDims
  \/ ApplyUfunc
  \/ Return

Spec == Init /\ [][Next]_vars

(***************************************************************************)
(* Reading the plan back from the state                                    *)
(***************************************************************************)
\* _einsum_parent has returned its triple
Planned == pc \in {"planned", "apply", "returned"}

\* operands processed so far
Processed == 1..Len(in_subscripts)

\* number of implicit pass-through axes of processed operand x
NPass(x) == Len(updated_in_dims[x]) - Len(in_dims[x])

\* where the pass-through axes of operand x start in handler.out_dims
RECURSIVE Offset(_)
Offset(x) == IF x = 1 THEN 0 ELSE Offset(x - 1) + NPass(x - 1)

HasEllipsis(sub) == Len(sub) >= 3 /\ SubSeq(sub, 1, 3) = Ellipsis

\* a subscript without its "..." prefix
Body(sub) == IF HasEllipsis(sub) THEN SubSeq(sub, 4, Len(sub)) ELSE sub

\* the output side of the final string: what follows "->"
OutSide(s) == IF Contains(s, Arrow) THEN Split(s, Arrow)[2] ELSE <<>>

\* the axes of operand x the request makes implicit pass-through axes
ImplicitAxes(x) ==
  SelectSeq(operands[x],
    LAMBDA d : d \in (keep_dims \cup AllDims(dims)) /\ ~InList(d, in_dims[x]))

\* every <<name, symbol>> the plan holds: pass-through axes (paired when the
\* symbol is drawn), declared axes of the processed operands, explicit output
Occurrences ==
  {<<handler.out_dims[r], handler.out_subscript[r]>> : r \in DOMAIN handler.out_dims}
  \cup UNION {{<<in_dims[x][q], Body(in_subscripts[x])[NPass(x) + q]>> :
                 q \in DOMAIN in_dims[x]} : x \in Processed}
  \cup (IF Planned /\ ~out_none
        THEN {<<out_dims[p], Body(OutSide(subscripts))[p]>> : p \in DOMAIN out_dims}
        ELSE {})

(***************************************************************************)
(* C1.  As stated: within one request every dimension name is represented  *)
(* by exactly one symbol, on every operand and in the output; a            *)
(* pass-through axis whose name already has a symbol reuses it.            *)
(***************************************************************************)
C1_OneSymbolPerName ==
  \A o1, o2 \in Occurrences : o1[1] = o2[1] => o1[2] = o2[2]

(***************************************************************************)
(* C1, amended.  Every name of dims has exactly one symbol in dim_map,     *)
(* distinct names have distinct symbols, and every declared occurrence and *)
(* every explicit-output occurrence of the name carries it; an implicit    *)
(* pass-through axis always draws a new symbol, also when its name already *)
(* has one: its symbol is used for no other name and no other occurrence.  *)
(***************************************************************************)
C1_DeclaredSharedPassThroughFresh ==
  pc \in {"pairs", "planned", "apply", "returned"} =>
    /\ DOMAIN handler.dim_map = AllDims(dims)
    /\ \A d1, d2 \in DOMAIN handler.dim_map :
         handler.dim_map[d1] = handler.dim_map[d2] => d1 = d2
    /\ \A x \in Processed : \A q \in DOMAIN in_dims[x] :
         Body(in_subscripts[x])[NPass(x) + q] = handler.dim_map[in_dims[x][q]]
    /\ (Planned /\ ~out_none) =>
         \A p \in DOMAIN out_dims :
           Body(OutSide(subscripts))[p] = handler.dim_map[out_dims[p]]
    /\ NoDup(handler.out_subscript)
    /\ \A r \in DOMAIN handler.out_subscript :
         handler.out_subscript[r] \notin Range(handler.dim_map)
    /\ \A x \in Processed : \A p \in 1..NPass(x) :
         Body(in_subscripts[x])[p] = handler.out_subscript[Offset(x) + p]

\* a planned request where a name that has a dim_map symbol is also a
\* pass-through axis of another operand
C1_Witness ==
  /\ Planned
  /\ \E r \in DOMAIN handler.out_dims :
       /\ handler.out_dims[r] \in DOMAIN handler.dim_map
       /\ \E x \in Processed : InList(handler.out_dims[r], in_dims[x])

(***************************************************************************)
(* C2.  As stated: an operand axis in keep_dims and not in the operand's   *)
(* declared list is never summed away: its symbol is in the output side of *)
(* the string and its name in the returned output list, with an inferred   *)
(* and with an explicit output.                                            *)
(***************************************************************************)
C2_KeptAxisSurvives ==
  Planned =>
    \A x \in Processed : \A p \in 1..NPass(x) :
      handler.out_dims[Offset(x) + p] \in keep_dims =>
        /\ InList(handler.out_subscript[Offset(x) + p], OutSide(subscripts))
        /\ InList(handler.out_dims[Offset(x) + p], out_dims)

C3_WitnessNoArrow ==
  /\ Planned /\ out_none /\ out_dims = <<>> /\ Len(operands) = 2

(***************************************************************************)
(* C5.  As stated: with a non-empty explicit output list, naming in it a   *)
(* dimension that is in no operand's declared list makes planning fail: no *)
(* subscripts string is produced.                                          *)
(***************************************************************************)
C5_UndeclaredOutputRejected ==
  (Planned /\ ~out_none /\ out_dims # <<>>) =>
    \A p \in DOMAIN out_dims : out_dims[p] \in AllDims(in_dims)

(***************************************************************************)
(* C6.  A request that names more distinct dimensions than the alphabet    *)
(* has letters (27) never gets past the construction of the handler: the   *)
(* call raises IndexError (pop from an empty pool); a call that raised     *)
(* IndexError has not invoked the numpy primitive; and the symbols handed  *)
(* out in one request (dim_map's and the pass-through ones) are pairwise   *)
(* different.                                                              *)
(***************************************************************************)
C6_PoolExhaustion ==
  /\ Cardinality(AllDims(dims)) > PoolSize =>
       /\ pc \in {"parent", "handler", "raised"}
       /\ ~called
       /\ (pc = "raised" /\ Len(dims) \in {Len(operands), Len(operands) + 1}) =>
            error = "IndexError"
  /\ error = "IndexError" => ~called /\ pc = "raised"
  /\ Cardinality(Range(handler.dim_map)) = Cardinality(DOMAIN handler.dim_map)
  /\ Cardinality(Range(handler.dim_map) \cup Range(handler.out_subscript))
       = Cardinality(DOMAIN handler.dim_map) + Len(handler.out_subscript)

\* the 27-name request has raised IndexError
C6_Witness ==
  /\ Cardinality(AllDims(dims)) = PoolSize + 1
  /\ pc = "raised"
  /\ error = "IndexError"
  /\ ~called

(***************************************************************************)
(* C8.  As stated: an operand's subscript starts with "..." exactly when   *)
(* the operand has more axes than pass-through plus declared ones, and     *)
(* whenever an operand's subscript carries "..." and the output is         *)
(* inferred, the final string carries "->...".                             *)
(***************************************************************************)
EllipsisPerOperand ==
  \A x \in Processed :
    HasEllipsis(in_subscripts[x])
      <=> Len(operands[x]) > Len(ImplicitAxes(x)) + Len(in_dims[x])

SomeEllipsis == \E x \in Processed : HasEllipsis(in_subscripts[x])

C8_EllipsisReachesOutput ==
  /\ EllipsisPerOperand
  /\ (Planned /\ out_none /\ SomeEllipsis) => Contains(subscripts, Arrow \o Ellipsis)

(***************************************************************************)
(* C8, amended.  An operand's subscript starts with "..." exactly when the *)
(* operand has more axes than pass-through plus declared ones; when an     *)
(* operand's subscript carries "...", the output is inferred and at least  *)
(* one pass-through axis was accumulated, the output side starts with      *)
(* "..."; when no pass-through axis was accumulated the string has no      *)
(* output side at all, whether or not an operand carries "...".            *)
(***************************************************************************)
C8_EllipsisWithPassThrough ==
  /\ EllipsisPerOperand
  /\ (Planned /\ out_none /\ out_dims # <<>>) =>
       /\ Contains(subscripts, Arrow)
       /\ HasEllipsis(OutSide(subscripts)) <=> SomeEllipsis
  /\ (Planned /\ out_none /\ out_dims = <<>>) => ~Contains(subscripts, Arrow)

\* inferred output, an operand with "...", and a pass-through axis
C8_Witness ==
  /\ Planned /\ out_none /\ SomeEllipsis /\ out_dims # <<>>
  /\ HasEllipsis(OutSide(subscripts))

(***************************************************************************)
(* C9.  As stated: for every operand the subscript built for it (after any *)
(* "...") and the updated dimension list returned for it agree position by *)
(* position: same length, and the k-th symbol is the symbol drawn for the  *)
(* k-th name of the updated list.                                          *)
(***************************************************************************)
\* the symbol drawn for name d on operand x: the pass-through symbol paired
\* with d when it was popped, else the dim_map symbol of a declared name
DrawnFor(x, d) ==
  IF \E p \in 1..NPass(x) : handler.out_dims[Offset(x) + p] = d
  THEN {handler.out_subscript[Offset(x) + p] :
          p \in {q \in 1..NPass(x) : handler.out_dims[Offset(x) + q] = d}}
  ELSE {handler.dim_map[d]}

C9_SubscriptMatchesCoreDims ==
  \A x \in Processed :
    /\ Len(Body(in_subscripts[x])) = Len(updated_in_dims[x])
    /\ \A p \in DOMAIN updated_in_dims[x] :
         Body(in_subscripts[x])[p] \in DrawnFor(x, updated_in_dims[x][p])

(***************************************************************************)
(* The renaming of einsum on its own: einsum has its output dimension list *)
(* from _einsum_parent and goes on from there, for every list and every    *)
(* pattern drawn.                                                          *)
(***************************************************************************)
InitRename ==
  /\ pc = "planned"
  /\ func = "einsum" /\ operands = <<>> /\ dims = <<>> /\ keep_dims = {}
  /\ dims_none = FALSE /\ mode = "none"
  /\ out_append \in OutAppends
  /\ in_dims = <<>> /\ out_none = FALSE /\ handler = NoHandler
  /\ out_dims \in SeqsUpTo(DimNames, MaxOutLen)
  /\ in_subscripts = <<>> /\ updated_in_dims = <<>> /\ subscripts = Arrow
  /\ core_dims = <<>> /\ updated_out_dims = <<>> /\ error = "none"
  /\ called = FALSE /\ caught = "none"
  /\ subscripts_arg = <<>> /\ written = <<>>
  /\ get_default_dims = "placeholder"

NextRename ==
  \/ Rename
  \/ ApplyUfunc

SpecRename == InitRename /\ [][NextRename]_vars

\* number of occurrences of out_dims[p] up to and including position p
Occurrence(p) == Cardinality({q \in 1..p : out_dims[q] = out_dims[p]})

NonZeroDigits == <<"1", "2", "3", "4", "5", "6", "7", "8", "9">>

\* what the patterns drawn give for the n-th occurrence, n < 10
Suffix(pattern, n) ==
  CASE pattern = <<"{", "i", "}">> -> <<NonZeroDigits[n]>>
    [] pattern = <<>> -> <<>>
    [] pattern = <<"_", "{", "i", "}">> -> <<"_", NonZeroDigits[n]>>
    [] pattern = <<"2">> -> <<"2">>

WellFormed(pattern) == pattern # <<"{">>

(***************************************************************************)
(* C4.  In einsum, scanning the output dimension list left to right, the   *)
(* first occurrence of a name is emitted unchanged and its n-th occurrence *)
(* (n >= 2) as the name followed by out_append formatted with i = n; the   *)
(* list keeps its length and order.  Three "a" give a, a2, a3 with "{i}"   *)
(* and a, a, a with "".  (A pattern that str.format rejects makes einsum   *)
(* raise, and only when some name is repeated.)                            *)
(***************************************************************************)
C4_DuplicatesSuffixed ==
  /\ pc \in {"apply", "returned"} =>
       /\ Len(updated_out_dims) = Len(out_dims)
       /\ \A p \in DOMAIN out_dims :
            updated_out_dims[p] =
              IF Occurrence(p) = 1 THEN out_dims[p]
              ELSE out_dims[p] \o Suffix(out_append, Occurrence(p))
       /\ (out_dims = <<<<"a">>, <<"a">>, <<"a">>>> /\ out_append = <<"{", "i", "}">>) =>
            updated_out_dims = <<<<"a">>, <<"a", "2">>, <<"a", "3">>>>
       /\ (out_dims = <<<<"a">>, <<"a">>, <<"a">>>> /\ out_append = <<>>) =>
            updated_out_dims = out_dims
  /\ pc = "raised" => ~WellFormed(out_append) /\ ~NoDup(out_dims)
  /\ (WellFormed(out_append) \/ NoDup(out_dims)) => pc # "raised"

\* three occurrences of "a" renamed with the default pattern
C4_Witness ==
  /\ pc = "apply"
  /\ out_append = <<"{", "i", "}">>
  /\ out_dims = <<<<"a">>, <<"a">>, <<"a">>>>
  /\ updated_out_dims = <<<<"a">>, <<"a", "2">>, <<"a", "3">>>>

(***************************************************************************)
(* The numpy.linalg wrappers and the get_default_dims hook                 *)
(***************************************************************************)
Wrappers ==
  {"matrix_power", "cholesky", "qr", "svd", "eig", "eigh", "eigvals", "eigvalsh",
   "norm", "cond", "det", "matrix_rank", "slogdet", "trace", "solve", "inv"}

\* what an application may assign to xarray_einstats.linalg.get_default_dims:
\* a function returning two of the dimensions of the first array
Resolvers == {"first_two", "last_two"}

\* get_default_dims(da1_dims, da2_dims): the placeholder raises
GetDefaultDims(g, da1_dims, da2_dims) ==
  IF g = "placeholder"
  THEN [raised |-> "MissingMonkeypatchError", val |-> <<>>]
  ELSE IF g = "first_two"
  THEN [raised |-> "none", val |-> SubSeq(da1_dims, 1, 2)]
  ELSE [raised |-> "none", val |-> SubSeq(da1_dims, Len(da1_dims) - 1, Len(da1_dims))]

\* _attempt_default_dims without its except clause
AttemptDefaultDimsNoCatch(g, f, da1_dims, da2_dims) ==
  LET aux == GetDefaultDims(g, da1_dims, da2_dims)
  IN [raised |-> aux.raised, caught |-> "none", val |-> aux.val]

\* _attempt_default_dims(func, da1_dims, da2_dims)
AttemptDefaultDims(g, f, da1_dims, da2_dims) ==
  LET aux == GetDefaultDims(g, da1_dims, da2_dims)
  IN IF aux.raised = "MissingMonkeypatchError"
     THEN [raised |-> "TypeError", caught |-> "MissingMonkeypatchError", val |-> <<>>]
     ELSE [raised |-> aux.raised, caught |-> "none", val |-> aux.val]

\* mode.lower()
Lower(m) ==
  CASE m = "Reduced" -> "reduced"
    [] m = "R" -> "r"
    [] OTHER -> m

QrModes == {"reduced", "complete", "r", "raw"}

ModeArgs == QrModes \cup {"Reduced", "R", "full"}

\* da.dims of a stack of matrices
MatrixAxes == {s \in AxesLists : Len(s) >= 2}

\* the application installs a resolver
Monkeypatch(g) ==
  /\ pc = "idle"
  /\ get_default_dims' = g
  /\ UNCHANGED <<pc, request, parent, result, caught, raw>>

\* a wrapper is entered, with dims or without
WrapperCall(f, da, d_none, d, m) ==
  /\ pc = "idle"
  /\ pc' = "wrapper"
  /\ func' = f
  /\ operands' = IF f = "solve" THEN <<da, da>> ELSE <<da>>
  /\ dims_none' = d_none
  /\ dims' = IF d_none THEN <<>> ELSE d
  /\ mode' = IF f = "qr" THEN m ELSE "none"
  /\ UNCHANGED <<keep_dims, out_append, parent, result, hook, raw>>

\* if dims is None: dims = _attempt_default_dims(name, da.dims[, db.dims])
WrapperDims ==
  /\ pc = "wrapper"
  /\ IF dims_none
     THEN LET got == AttemptDefaultDims(get_default_dims, func, operands[1],
                                        IF func = "solve" THEN operands[2] ELSE <<>>)
          IN /\ caught' = got.caught
             /\ error' = got.raised
             /\ dims' = got.val
             /\ pc' = IF got.raised = "none" THEN "body" ELSE "raised"
     ELSE /\ pc' = "body"
          /\ UNCHANGED <<caught, error, dims>>
  /\ UNCHANGED <<func, operands, dims_none, mode, keep_dims, out_append, parent,
                 core_dims, updated_out_dims, called, get_default_dims, raw>>

\* the rest of the wrapper up to apply_ufunc; qr rejects an unknown mode
WrapperBody ==
  /\ pc = "body"
  /\ IF func = "qr" /\ Lower(mode) \notin QrModes
     THEN /\ error' = "ValueError"
          /\ pc' = "raised"
          /\ core_dims' = core_dims
     ELSE /\ error' = "none"
          /\ pc' = "apply"
          /\ core_dims' = <<dims>>
  /\ UNCHANGED <<request, parent, updated_out_dims, called, hook, raw>>

NextLinalg ==
  \/ \E g \in Resolvers : Monkeypatch(g)
  \/ /\ pc = "idle"
     /\ \E f \in Wrappers, da \in MatrixAxes, d_none \in BOOLEAN, d \in MatrixAxes,
           m \in ModeArgs : WrapperCall(f, da, d_none, d, m)
  \/ WrapperDims
  \/ WrapperBody
  \/ ApplyUfunc
  \/ Return

SpecLinalg == Init /\ [][NextLinalg]_vars

(***************************************************************************)
(* C7.  As stated: a wrapper called with dims omitted while                *)
(* get_default_dims is the placeholder surfaces a dedicated error kind,    *)
(* distinct from a generic type error and from the configuration error;    *)
(* with a resolver installed the same call does not raise it.              *)
(***************************************************************************)
C7_DedicatedErrorKind ==
  /\ (pc = "raised" /\ dims_none /\ caught # "none") =>
       error \notin {"TypeError", "ValueError"}
  /\ (dims_none /\ get_default_dims # "placeholder") => caught = "none"

(***************************************************************************)
(* C7, amended.  A wrapper called with dims omitted while get_default_dims *)
(* is the placeholder raises TypeError, the generic type-error kind, to    *)
(* its caller before apply_ufunc is reached; the dedicated                 *)
(* MissingMonkeypatchError is raised by the placeholder and caught in      *)
(* _attempt_default_dims and never reaches the caller; the configuration   *)
(* error of qr (ValueError) is a different kind; with a resolver installed *)
(* the same call raises neither.                                           *)
(***************************************************************************)
C7_TypeErrorSurfaces ==
  /\ error # "MissingMonkeypatchError"
  /\ (dims_none /\ get_default_dims = "placeholder" /\ pc # "wrapper") =>
       /\ pc = "raised"
       /\ error = "TypeError"
       /\ caught = "MissingMonkeypatchError"
       /\ ~called
  /\ (dims_none /\ get_default_dims # "placeholder") =>
       /\ caught = "none"
       /\ error # "TypeError"
  /\ error = "TypeError" => dims_none /\ get_default_dims = "placeholder"
  /\ error = "ValueError" => func = "qr" /\ Lower(mode) \notin QrModes

\* dims omitted, no resolver installed: the call has raised
C7_Witness ==
  /\ pc = "raised"
  /\ func \in Wrappers
  /\ dims_none
  /\ get_default_dims = "placeholder"
  /\ error = "TypeError"

\* dims omitted, a resolver installed: the call went through
C7_WitnessInstalled ==
  /\ pc = "returned"
  /\ func \in Wrappers
  /\ dims_none
  /\ get_default_dims \in Resolvers
  /\ called

(***************************************************************************)
(* raw_einsum                                                              *)
(***************************************************************************)
\* [dim.strip(", ") for dim in text.split(" ")]
NamesOf(text) ==
  LET parts == Split(text, <<" ">>)
  IN [y \in 1..Len(parts) |-> Strip(parts[y], {",", " "})]

\* raw_einsum up to its call of einsum: the dims it passes on.  ok = FALSE:
\* `in_subscripts, out_subscript = subscripts.split("->")` cannot unpack
\* (ValueError).  In `in_dims + out_dims` every output name is an element of
\* dims of its own, a str where a list of names is expected.
RawDims(subs) ==
  LET arrow == Contains(subs, Arrow)
      halves == Split(subs, Arrow)
      in_subs == IF arrow THEN halves[1] ELSE subs
      out_sub == IF arrow THEN halves[2] ELSE <<>>
      ins == LET parts == Split(in_subs, <<",">>)
             IN [x \in 1..Len(parts) |-> NamesOf(parts[x])]
      outs == NamesOf(out_sub)
  IN IF arrow /\ Len(halves) # 2 THEN [ok |-> FALSE, dims |-> <<>>]
     ELSE IF ~arrow THEN [ok |-> TRUE, dims |-> ins]
     ELSE IF out_sub = <<>> THEN [ok |-> TRUE, dims |-> Append(ins, <<>>)]
     ELSE [ok |-> TRUE, dims |-> ins \o [y \in 1..Len(outs) |-> StrAsList(outs[y])]]

\* the subscripts string of the docstring for lists of names: spaces between
\* the names of one operand, commas between operands, "->" before the output
Render(w) ==
  Join(<<",">>, [x \in 1..Len(w.ins) |-> Join(<<" ">>, w.ins[x])])
    \o (IF w.out_none THEN <<>> ELSE Arrow \o Join(<<" ">>, w.out))

\* the dims argument of einsum that says the same
ListOfLists(w) == IF w.out_none THEN w.ins ELSE Append(w.ins, w.out)

RawNameLists == {l \in SeqsUpTo(DimNames, MaxRawNames) : Len(l) >= 1 /\ NoDup(l)}

Written ==
  UNION {
    {[ins |-> i, out_none |-> n, out |-> o] :
       i \in [1..k -> RawNameLists],
       n \in BOOLEAN,
       o \in {l \in SeqsUpTo(DimNames, MaxRawNames) : NoDup(l)}}
    : k \in 1..MaxOperands}

\* raw_einsum(subscripts, *operands) is entered; every operand has the axes
\* the string names for it
InitRaw ==
  /\ pc = "raw"
  /\ func = "raw_einsum"
  /\ written \in {w \in Written : w.out_none => w.out = <<>>}
  /\ subscripts_arg = Render(written)
  /\ operands = written.ins
  /\ dims = <<>> /\ keep_dims = {} /\ dims_none = FALSE /\ mode = "none"
  /\ out_append = default_out_append
  /\ in_dims = <<>> /\ out_dims = <<>> /\ out_none = FALSE /\ handler = NoHandler
  /\ in_subscripts = <<>> /\ updated_in_dims = <<>> /\ subscripts = <<>>
  /\ core_dims = <<>> /\ updated_out_dims = <<>> /\ error = "none"
  /\ called = FALSE /\ caught = "none"
  /\ get_default_dims = "placeholder"

\* raw_einsum: parse, then call einsum(dims, *operands, ...)
RawEinsum ==
  /\ pc = "raw"
  /\ LET got == RawDims(subscripts_arg)
     IN IF got.ok
        THEN /\ dims' = got.dims
             /\ pc' = "parent"
             /\ error' = "none"
        ELSE /\ dims' = dims
             /\ pc' = "raised"
             /\ error' = "ValueError"
  /\ UNCHANGED <<func, operands, dims_none, mode, keep_dims, out_append, parent,
                 core_dims, updated_out_dims, called, hook, raw>>

NextRaw ==
  \/ RawEinsum
  \/ SplitDims
  \/ NewHandler
  \/ ProcessPair
  \/ ResolveOut
  \/ Rename
  \/ ApplyUfunc

SpecRaw == InitRaw /\ [][NextRaw]_vars

(***************************************************************************)
(* C10.  As stated: raw_einsum turns a well-formed subscripts string into  *)
(* the dims of einsum: one list of names per operand; no "->": nothing     *)
(* more; "->" and nothing after it: one more, empty list; "->" and names:  *)
(* one more list with those names in order.  So the length check of        *)
(* _einsum_parent never fails for such a string.                           *)
(***************************************************************************)
C10_RawDimsFaithful ==
  pc # "raw" =>
    /\ dims = ListOfLists(written)
    /\ error # "ValueError"

(***************************************************************************)
(* The pool of a request, read back from the state                         *)
(***************************************************************************)
\* symbols the request needs: one per declared name, one per pass-through axis
RECURSIVE NeededFrom(_)
NeededFrom(x) ==
  IF x > Len(in_dims) \/ x > Len(operands) THEN 0
  ELSE Len(ImplicitAxes(x)) + NeededFrom(x + 1)

Needed == Cardinality(AllDims(dims)) + NeededFrom(1)

\* the handler of the request exists
Built == pc \in {"pairs", "outsub", "outdims", "resolve"} \/ Planned

\* pool `start` is handed out from its last element ('a' end) backwards:
\* dim_map holds the last letters, out_subscript the ones before them in
\* order, and einsum_axes is what is left
HandedFromEnd(start) ==
  LET n == Cardinality(DOMAIN handler.dim_map)
      m == Len(handler.out_subscript)
      L == Len(start)
  IN /\ n + m <= L
     /\ handler.einsum_axes = SubSeq(start, 1, L - n - m)
     /\ Range(handler.dim_map) = {start[L - k + 1] : k \in 1..n}
     /\ \A r \in 1..m : handler.out_subscript[r] = start[L - n - r + 1]

\* the letters of the alphabet that are not names of the request
FreeLetters ==
  SelectSeq(Alphabet, LAMBDA letter : <<letter>> \notin (keep_dims \cup AllDims(dims)))

(***************************************************************************)
(* C11.  As stated: at the start of every request the pool is the whole    *)
(* alphabet of 26 letters in reverse order, whatever the names of the      *)
(* request are (a dimension named by a single letter removes nothing);     *)
(* symbols are handed out from the 'a' end first; so a request that needs  *)
(* at most 26 symbols never runs out of symbols.                           *)
(***************************************************************************)
C11_FullAlphabetPool ==
  /\ Built => HandedFromEnd(Alphabet)
  /\ error = "IndexError" => Needed > PoolSize

(***************************************************************************)
(* C11.  Amended: at the start of every request the pool is the alphabet   *)
(* in reverse order without the letters that are themselves names in       *)
(* keep_dims or in dims; symbols are handed out from the 'a' end of what   *)
(* is left; a request runs out of symbols exactly when it needs more       *)
(* symbols than the letters left, so at most 26 minus the number of its    *)
(* single-letter names never runs out.                                     *)
(***************************************************************************)
C11_PoolWithoutLetterNames ==
  /\ Built => HandedFromEnd(FreeLetters)
  /\ error = "IndexError" => Needed > Len(FreeLetters)
  /\ (Built /\ pc # "pairs") => Needed <= Len(FreeLetters)

\* a request with the name 'a' has been planned: 'a' was never in the pool
\* and the first symbol handed out is 'b'
C11_Witness ==
  /\ Planned
  /\ <<"a">> \in AllDims(dims)
  /\ "b" \in Range(handler.dim_map)
  /\ "a" \notin Range(handler.dim_map) \cup Range(handler.einsum_axes)

\* a request that needs 26 symbols, one of its names the letter 'i', has run
\* out of symbols
C11_WitnessExhausted ==
  /\ error = "IndexError"
  /\ Needed = PoolSize
  /\ <<"i">> \in AllDims(dims)

====
